---- MODULE Spec2Model ----
(***************************************************************************)
(* Doctor-patient conversation page of the multimodal translator.          *)
(*                                                                         *)
(* One Streamlit session: every user interaction reruns show_conversation, *)
(* which initialises the history, evaluates the two microphone widgets,    *)
(* runs _process_turn for every button that fired, then renders and        *)
(* exports the history.  _process_turn is modelled step by step (one       *)
(* action per external call) so that the order of service calls, appends   *)
(* and file deletions is visible.                                          *)
(*                                                                         *)
(* Texts are sequences of characters, " " being whitespace.  Files are     *)
(* tracked by their state on disk.  External services (speech             *)
(* recognition, Google translation, gTTS, the file system) answer          *)
(* nondeterministically, a raised exception being one of the answers.      *)
(***************************************************************************)
EXTENDS Integers, Sequences, FiniteSets, TLC

VARIABLES
    conv_history,    \* st.session_state.conv_history (list of turns)
    has_history,     \* "conv_history" in st.session_state
    last_audio,      \* st.session_state[f"{key}_last_audio"], per mic key
    doctor_lang,     \* selectbox conv_doc_lang
    patient_lang,    \* selectbox conv_pat_lang
    pc,              \* position of the running script
    todo,            \* roles whose button fired in this run, not yet processed
    role,            \* _process_turn parameter
    audio_data,      \* _process_turn parameter
    src_lang,        \* _process_turn parameter
    tgt_lang,        \* _process_turn parameter
    wav_file,        \* state on disk of the file at wav_path
    original_text,   \* local of _process_turn
    translated_text, \* local of _process_turn
    tts_file,        \* state on disk of the MP3 made by text_to_speech_file
    tts_path,        \* TRUE when text_to_speech_file returned a path
    tts_text,        \* text handed to text_to_speech_file
    calls,           \* service wrappers entered by this invocation, in order
    remote,          \* remote engines actually requested, in order
    raised,          \* services that raised inside their wrapper
    exc,             \* origin of the exception leaving _process_turn, or "none"
    played,          \* st.audio was given the synthesized bytes
    hist_before,     \* conv_history when the invocation started
    pdf,             \* outcome of the last _download_history_pdf_button
    warned,          \* show_speech_tab showed the recognition-support warning
    lang_code,       \* value returned by a direct lang_code_for_translation call
    audio_bytes,     \* what audio_recorder delivered in this run, per mic key
    uploaded,        \* what the file uploader of show_speech_tab holds in this run
    shown,           \* messages the Translator page has put out in this run
    img_text_input,  \* st.session_state["img_text_input"]
    extracted        \* value extract_text_from_image returned in this run

vars == <<conv_history, has_history, last_audio, doctor_lang, patient_lang,
          pc, todo, role, audio_data, src_lang, tgt_lang, wav_file,
          original_text, translated_text, tts_file, tts_path, tts_text,
          calls, remote, raised, exc, played, hist_before, pdf, warned,
          lang_code, audio_bytes, uploaded, shown, img_text_input, extracted>>

session == <<has_history, last_audio, doctor_lang, patient_lang>>
params  == <<role, audio_data, src_lang, tgt_lang>>
widgets == <<audio_bytes, uploaded>>
image   == <<img_text_input, extracted>>
apart   == <<pdf, warned, lang_code, widgets, image, shown>>

-----------------------------------------------------------------------------
(* Bounds *)

\* Turns a session may record before the buttons stop being pressed.
MaxTurns == 2

\* Longest text handed to a text function in a direct call.
MaxTextLen == 3

-----------------------------------------------------------------------------
(* Language catalog *)

SUPPORTED_LANGUAGES ==
    [n \in {"English", "Hindi", "Kannada", "Tamil", "Telugu", "Malayalam",
            "Marathi", "Gujarati", "Punjabi", "Bengali", "Urdu", "Arabic",
            "Chinese (Simplified)", "Chinese (Traditional)", "French",
            "German", "Spanish", "Portuguese", "Russian", "Italian",
            "Japanese", "Korean", "Thai", "Indonesian", "Turkish", "Dutch",
            "Swedish", "Polish", "Czech", "Greek", "Vietnamese", "Swahili",
            "Filipino", "Romanian", "Hungarian", "Finnish", "Danish",
            "Norwegian", "Hebrew", "Persian (Farsi)"} |->
       CASE n = "English" -> "en"    [] n = "Hindi" -> "hi"
         [] n = "Kannada" -> "kn"    [] n = "Tamil" -> "ta"
         [] n = "Telugu" -> "te"     [] n = "Malayalam" -> "ml"
         [] n = "Marathi" -> "mr"    [] n = "Gujarati" -> "gu"
         [] n = "Punjabi" -> "pa"    [] n = "Bengali" -> "bn"
         [] n = "Urdu" -> "ur"       [] n = "Arabic" -> "ar"
         [] n = "Chinese (Simplified)" -> "zh-cn"
         [] n = "Chinese (Traditional)" -> "zh-tw"
         [] n = "French" -> "fr"     [] n = "German" -> "de"
         [] n = "Spanish" -> "es"    [] n = "Portuguese" -> "pt"
         [] n = "Russian" -> "ru"    [] n = "Italian" -> "it"
         [] n = "Japanese" -> "ja"   [] n = "Korean" -> "ko"
         [] n = "Thai" -> "th"       [] n = "Indonesian" -> "id"
         [] n = "Turkish" -> "tr"    [] n = "Dutch" -> "nl"
         [] n = "Swedish" -> "sv"    [] n = "Polish" -> "pl"
         [] n = "Czech" -> "cs"      [] n = "Greek" -> "el"
         [] n = "Vietnamese" -> "vi" [] n = "Swahili" -> "sw"
         [] n = "Filipino" -> "tl"   [] n = "Romanian" -> "ro"
         [] n = "Hungarian" -> "hu"  [] n = "Finnish" -> "fi"
         [] n = "Danish" -> "da"     [] n = "Norwegian" -> "no"
         [] n = "Hebrew" -> "he"     [] n = "Persian (Farsi)" -> "fa"]

\* Faulty variant: the lookup without its default, an unknown name giving
\* the empty code.
lang_code_for_translation_no_default(lang_name) ==
    IF lang_name \in DOMAIN SUPPORTED_LANGUAGES
    THEN SUPPORTED_LANGUAGES[lang_name]
    ELSE ""

\* SUPPORTED_LANGUAGES.get(lang_name, "en")
lang_code_for_translation(lang_name) ==
    IF lang_name \in DOMAIN SUPPORTED_LANGUAGES
    THEN SUPPORTED_LANGUAGES[lang_name]
    ELSE "en"

\* Faulty variant: has_sr_support answering for the two languages the
\* warning text recommends only.
has_sr_support_recommended(lang) == lang \in {"English", "Hindi"}

\* has_sr_support: lang in SUPPORTED_LANGUAGES
has_sr_support(lang) == lang \in DOMAIN SUPPORTED_LANGUAGES

\* get_language_list, get_all_languages: the names the selectboxes offer.
get_language_list == DOMAIN SUPPORTED_LANGUAGES

\* The source languages the user picks on the Translator page.
TranslatorLanguages == {"English", "Hindi", "Tamil"}

\* The languages the user picks in the two selectboxes during the session.
UiLanguages == {"English", "Hindi"}

-----------------------------------------------------------------------------
(* Texts *)

IsSpace(c) == c \in {" ", "\n"}

RECURSIVE LStrip(_)
LStrip(s) ==
    IF s = <<>> THEN <<>>
    ELSE IF IsSpace(Head(s)) THEN LStrip(Tail(s)) ELSE s

RECURSIVE RStrip(_)
RStrip(s) ==
    IF s = <<>> THEN <<>>
    ELSE IF IsSpace(s[Len(s)]) THEN RStrip(SubSeq(s, 1, Len(s) - 1)) ELSE s

\* str.strip()
Strip(s) == RStrip(LStrip(s))

\* Python's "not text or not text.strip()"
IsBlank(s) == s = <<>> \/ Strip(s) = <<>>

\* What the recognizer may hand back: nothing, whitespace, a bare word, and
\* a word with whitespace around it.
RecognizedTexts == {<<>>, <<" ">>, <<"a">>, <<" ", "a", " ">>}

\* What the translation engine may hand back.
EngineTexts == {<<>>, <<" ">>, <<"b">>}

-----------------------------------------------------------------------------
(* Files *)

\* Safe delete: os.remove when the file exists; an OSError is swallowed and
\* leaves the file where it is.
cleanup_temp_file(file, os_ok) ==
    IF file \in {"data", "empty"} /\ os_ok THEN "removed" ELSE file

OnDisk(file) == file \in {"data", "empty"}

-----------------------------------------------------------------------------
(* Service wrappers.  Each takes the answer of its engine as last argument *)
(* and returns what the wrapper returns plus what it did on the way.       *)

\* Answers of the recognizer: a text, or one of the exceptions the wrapper
\* tells apart (speech not understood, API request failed, anything else
\* such as an unreadable WAV file).
SttAnswers ==
    {[kind |-> "text", text |-> t] : t \in RecognizedTexts}
        \cup {[kind |-> k, text |-> <<>>] :
                  k \in {"UnknownValueError", "RequestError", "Exception"}}

\* sr.AudioFile cannot open a file without WAV data: with an empty buffer
\* the wrapper raises before recognize_google is requested.
SttAnswersFor(audio) ==
    IF audio = "empty" THEN {[kind |-> "Exception", text |-> <<>>]}
                       ELSE SttAnswers

\* speech_to_text: every exception is caught and turned into "".
\* escapes: the exception leaves the wrapper.
speech_to_text(audio, ans) ==
    [ret     |-> IF ans.kind = "text" THEN ans.text ELSE <<>>,
     remote  |-> audio # "empty",
     raised  |-> ans.kind # "text",
     escapes |-> FALSE]

\* Answers of GoogleTranslator.translate: a text, None, or an exception.
TranslateAnswers ==
    {[kind |-> "text", text |-> t] : t \in EngineTexts}
        \cup {[kind |-> "none", text |-> <<>>], [kind |-> "raise", text |-> <<>>]}

\* Python's "translated or ''"
OrEmpty(ans) == IF ans.kind = "none" THEN <<>> ELSE ans.text

\* Faulty variant: translate_text without the same-code shortcut, so that
\* the engine is requested for identical languages too.
translate_text_no_skip(text, src_lang_name, tgt_lang_name, ans) ==
    LET stripped == Strip(text)
    IN  IF text = <<>> \/ stripped = <<>>
        THEN [ret |-> <<>>, remote |-> FALSE, raised |-> FALSE,
              escapes |-> FALSE]
        ELSE IF ans.kind = "raise"
        THEN [ret |-> stripped, remote |-> TRUE, raised |-> TRUE,
              escapes |-> FALSE]
        ELSE [ret |-> OrEmpty(ans), remote |-> TRUE, raised |-> FALSE,
              escapes |-> FALSE]

\* Faulty variant: translate_text answering "" when the engine raises
\* instead of falling back to the untranslated text.
translate_text_fail_empty(text, src_lang_name, tgt_lang_name, ans) ==
    LET stripped == Strip(text)
        src_code == lang_code_for_translation(src_lang_name)
        tgt_code == lang_code_for_translation(tgt_lang_name)
    IN  IF text = <<>> \/ stripped = <<>>
        THEN [ret |-> <<>>, remote |-> FALSE, raised |-> FALSE,
              escapes |-> FALSE]
        ELSE IF src_code = tgt_code
        THEN [ret |-> stripped, remote |-> FALSE, raised |-> FALSE,
              escapes |-> FALSE]
        ELSE IF ans.kind = "raise"
        THEN [ret |-> <<>>, remote |-> TRUE, raised |-> TRUE,
              escapes |-> FALSE]
        ELSE [ret |-> OrEmpty(ans), remote |-> TRUE, raised |-> FALSE,
              escapes |-> FALSE]

\* Faulty variant: translate_text comparing the two display names instead
\* of the codes they resolve to.
translate_text_skip_on_names(text, src_lang_name, tgt_lang_name, ans) ==
    LET stripped == Strip(text)
    IN  IF text = <<>> \/ stripped = <<>>
        THEN [ret |-> <<>>, remote |-> FALSE, raised |-> FALSE,
              escapes |-> FALSE]
        ELSE IF src_lang_name = tgt_lang_name
        THEN [ret |-> stripped, remote |-> FALSE, raised |-> FALSE,
              escapes |-> FALSE]
        ELSE IF ans.kind = "raise"
        THEN [ret |-> stripped, remote |-> TRUE, raised |-> TRUE,
              escapes |-> FALSE]
        ELSE [ret |-> OrEmpty(ans), remote |-> TRUE, raised |-> FALSE,
              escapes |-> FALSE]

\* Faulty variant: translate_text keeping the text as given for its
\* untranslated returns, stripping only to test for emptiness.
translate_text_as_given(text, src_lang_name, tgt_lang_name, ans) ==
    LET stripped == Strip(text)
        src_code == lang_code_for_translation(src_lang_name)
        tgt_code == lang_code_for_translation(tgt_lang_name)
    IN  IF text = <<>> \/ stripped = <<>>
        THEN [ret |-> <<>>, remote |-> FALSE, raised |-> FALSE,
              escapes |-> FALSE]
        ELSE IF src_code = tgt_code
        THEN [ret |-> text, remote |-> FALSE, raised |-> FALSE,
              escapes |-> FALSE]
        ELSE IF ans.kind = "raise"
        THEN [ret |-> text, remote |-> TRUE, raised |-> TRUE,
              escapes |-> FALSE]
        ELSE [ret |-> OrEmpty(ans), remote |-> TRUE, raised |-> FALSE,
              escapes |-> FALSE]

\* translate_text
translate_text(text, src_lang_name, tgt_lang_name, ans) ==
    LET stripped == Strip(text)
        src_code == lang_code_for_translation(src_lang_name)
        tgt_code == lang_code_for_translation(tgt_lang_name)
    IN  IF text = <<>> \/ stripped = <<>>
        THEN [ret |-> <<>>, remote |-> FALSE, raised |-> FALSE,
              escapes |-> FALSE]
        ELSE IF src_code = tgt_code
        THEN [ret |-> stripped, remote |-> FALSE, raised |-> FALSE,
              escapes |-> FALSE]
        ELSE IF ans.kind = "raise"
        THEN [ret |-> stripped, remote |-> TRUE, raised |-> TRUE,
              escapes |-> FALSE]
        ELSE [ret |-> OrEmpty(ans), remote |-> TRUE, raised |-> FALSE,
              escapes |-> FALSE]

\* Answers of gTTS: the constructor or the temp-file creation raises (no
\* file yet), save raises after the file was created, save leaves an empty
\* file, or save writes the audio.
TtsAnswers == {"raise_early", "raise_save", "empty", "ok"}

\* Faulty variant: text_to_speech_file without its except clause, so that
\* an exception of gTTS leaves the wrapper.
text_to_speech_file_uncaught(text, language_name, ans) ==
    IF IsBlank(text)
    THEN [path |-> FALSE, file |-> "none", remote |-> FALSE,
          raised |-> FALSE, escapes |-> FALSE]
    ELSE CASE ans = "raise_early" ->
                [path |-> FALSE, file |-> "none", remote |-> TRUE,
                 raised |-> TRUE, escapes |-> TRUE]
           [] ans = "raise_save" ->
                [path |-> FALSE, file |-> "empty", remote |-> TRUE,
                 raised |-> TRUE, escapes |-> TRUE]
           [] ans = "empty" ->
                [path |-> FALSE, file |-> "empty", remote |-> TRUE,
                 raised |-> FALSE, escapes |-> FALSE]
           [] ans = "ok" ->
                [path |-> TRUE, file |-> "data", remote |-> TRUE,
                 raised |-> FALSE, escapes |-> FALSE]

\* Faulty variant: text_to_speech_file without the size check, returning
\* the path of whatever file save left behind.
text_to_speech_file_any_size(text, language_name, ans) ==
    IF IsBlank(text)
    THEN [path |-> FALSE, file |-> "none", remote |-> FALSE,
          raised |-> FALSE, escapes |-> FALSE]
    ELSE CASE ans = "raise_early" ->
                [path |-> FALSE, file |-> "none", remote |-> TRUE,
                 raised |-> TRUE, escapes |-> FALSE]
           [] ans = "raise_save" ->
                [path |-> FALSE, file |-> "empty", remote |-> TRUE,
                 raised |-> TRUE, escapes |-> FALSE]
           [] ans = "empty" ->
                [path |-> TRUE, file |-> "empty", remote |-> TRUE,
                 raised |-> FALSE, escapes |-> FALSE]
           [] ans = "ok" ->
                [path |-> TRUE, file |-> "data", remote |-> TRUE,
                 raised |-> FALSE, escapes |-> FALSE]

\* text_to_speech_file
text_to_speech_file(text, language_name, ans) ==
    IF IsBlank(text)
    THEN [path |-> FALSE, file |-> "none", remote |-> FALSE,
          raised |-> FALSE, escapes |-> FALSE]
    ELSE CASE ans = "raise_early" ->
                [path |-> FALSE, file |-> "none", remote |-> TRUE,
                 raised |-> TRUE, escapes |-> FALSE]
           [] ans = "raise_save" ->
                [path |-> FALSE, file |-> "empty", remote |-> TRUE,
                 raised |-> TRUE, escapes |-> FALSE]
           [] ans = "empty" ->
                [path |-> FALSE, file |-> "empty", remote |-> TRUE,
                 raised |-> FALSE, escapes |-> FALSE]
           [] ans = "ok" ->
                [path |-> TRUE, file |-> "data", remote |-> TRUE,
                 raised |-> FALSE, escapes |-> FALSE]

-----------------------------------------------------------------------------
(* Conversation history *)

\* Faulty variant: _init_history assigning the empty list on every rerun.
_init_history_reset(has, history) == <<>>

\* _init_history: creates the list only when the key is missing.
_init_history(has, history) == IF has THEN history ELSE <<>>

\* Faulty variant: _append_message inserting the turn at the head of the
\* list.
_append_message_at_front(history, speaker, src, tgt, original, translated) ==
    <<[speaker    |-> speaker,
       src_lang   |-> src,
       tgt_lang   |-> tgt,
       original   |-> original,
       translated |-> translated]>> \o history

\* Faulty variant: _append_message dropping a turn whose translation is
\* empty.
_append_message_skip_empty(history, speaker, src, tgt, original, translated) ==
    IF translated = <<>>
    THEN history
    ELSE Append(history, [speaker    |-> speaker,
                          src_lang   |-> src,
                          tgt_lang   |-> tgt,
                          original   |-> original,
                          translated |-> translated])

\* _append_message
_append_message(history, speaker, src, tgt, original, translated) ==
    Append(history, [speaker    |-> speaker,
                     src_lang   |-> src,
                     tgt_lang   |-> tgt,
                     original   |-> original,
                     translated |-> translated])

-----------------------------------------------------------------------------
(* Microphone widget *)

MicKeys == {"conv_doc_mic", "conv_pat_mic"}

SpeechMicKeys == {"translator_patient"}

\* Every key medical_mic is called with.
AllMicKeys == MicKeys \cup SpeechMicKeys

\* No microphone has delivered anything.
NoAudio == [k \in AllMicKeys |-> "None"]

\* What audio_recorder delivers in one run: nothing new (None), a recording
\* without samples, or a recording.
RecorderResults == {"None", "empty", "wav"}

\* Faulty variant: medical_mic handing back what the recorder delivered in
\* this run, without falling back on the stored recording.
medical_mic_no_retain(stored, recording) == recording

\* medical_mic: a new recording replaces the stored one, the stored one is
\* returned.
medical_mic(stored, recording) ==
    IF recording # "None" THEN recording ELSE stored

-----------------------------------------------------------------------------
(* conversation.py: _download_history_pdf_button *)

\* A line of the document is a sequence of pieces of text; a piece is a run
\* of characters, and a character the source file holds outside ASCII is
\* named by its code point.  The core font Arial takes latin-1 only.
NonLatin1 == {"U+201A"}

Latin1(line) == \A i \in 1..Len(line) : line[i] \notin NonLatin1

PdfTitle == <<"Doctor", "U+201A", "U+00C4", "U+00EC", "Patient Conversation">>

PdfHeader(msg) ==
    <<msg.speaker, " (", msg.src_lang, " ", "U+201A", "U+00DC", "U+00ED",
      " ", msg.tgt_lang, ")">>

PdfSpoken(msg) == <<"Spoken: ">> \o msg.original

PdfTranslated(msg) == <<"Translated: ">> \o msg.translated

\* The title, then three lines for each message, in the order of the history.
PdfLines(history) ==
    [i \in 1..(1 + 3 * Len(history)) |->
        IF i = 1 THEN PdfTitle
        ELSE LET msg == history[(i + 1) \div 3]
             IN  CASE (i + 1) % 3 = 0 -> PdfHeader(msg)
                   [] (i + 1) % 3 = 1 -> PdfSpoken(msg)
                   [] OTHER           -> PdfTranslated(msg)]

NoPdf == [kind |-> "none", lines |-> <<>>]

\* No button for an empty history; otherwise the pages are encoded as
\* latin-1 when the document is put out, which raises on any other character.
_download_history_pdf_button(history) ==
    IF history = <<>>
    THEN NoPdf
    ELSE IF \A i \in 1..Len(PdfLines(history)) : Latin1(PdfLines(history)[i])
         THEN [kind |-> "pdf", lines |-> PdfLines(history)]
         ELSE [kind |-> "UnicodeEncodeError", lines |-> <<>>]

-----------------------------------------------------------------------------
(* State *)

NoText == <<>>

TypeOK ==
    /\ has_history \in BOOLEAN
    /\ Len(conv_history) <= MaxTurns
    /\ \A i \in 1..Len(conv_history) :
          /\ conv_history[i].speaker \in {"Doctor", "Patient"}
          /\ conv_history[i].src_lang \in UiLanguages
          /\ conv_history[i].tgt_lang \in UiLanguages
    /\ last_audio \in [AllMicKeys -> RecorderResults]
    /\ audio_bytes \in [AllMicKeys -> RecorderResults]
    /\ uploaded \in RecorderResults
    /\ doctor_lang \in UiLanguages
    /\ patient_lang \in UiLanguages
    /\ pc \in {"idle", "triggers", "exported", "stt", "translate", "append",
               "tts", "play", "finally", "returned", "sp_idle", "sp_stt",
               "sp_translate", "sp_tts", "sp_play", "sp_finally", "sp_done",
               "tx_translate", "tx_tts", "tx_play", "im_translate", "im_tts",
               "im_play",
               "call", "called"}
    /\ wav_file \in {"none", "empty", "data", "removed"}
    /\ tts_file \in {"none", "empty", "data", "removed"}
    /\ tts_path \in BOOLEAN
    /\ played \in BOOLEAN
    /\ exc \in {"none", "tempfile", "write", "stt", "translate", "tts",
                "read", "play", "ocr"}
    /\ raised \subseteq {"stt", "translate", "tts", "ocr"}
    /\ pdf.kind \in {"none", "pdf", "UnicodeEncodeError"}
    /\ warned \in BOOLEAN
    /\ lang_code \in {"-"} \cup {SUPPORTED_LANGUAGES[n] : n \in DOMAIN SUPPORTED_LANGUAGES}

\* The session starts with an empty session_state; the two selectboxes hold
\* whatever pair of languages the user works with.
Init ==
    /\ conv_history = <<>>
    /\ has_history = FALSE
    /\ last_audio = NoAudio
    /\ doctor_lang \in UiLanguages
    /\ patient_lang \in UiLanguages
    /\ pc = "idle"
    /\ todo = <<>>
    /\ role = "-"
    /\ audio_data = "None"
    /\ src_lang = "-"
    /\ tgt_lang = "-"
    /\ wav_file = "none"
    /\ original_text = NoText
    /\ translated_text = NoText
    /\ tts_file = "none"
    /\ tts_path = FALSE
    /\ tts_text = NoText
    /\ calls = <<>>
    /\ remote = <<>>
    /\ raised = {}
    /\ exc = "none"
    /\ played = FALSE
    /\ hist_before = <<>>
    /\ pdf = NoPdf
    /\ warned = FALSE
    /\ lang_code = "-"
    /\ audio_bytes = NoAudio
    /\ uploaded = "None"
    /\ shown = {}
    /\ img_text_input = NoText
    /\ extracted = NoText

files  == <<wav_file, tts_file, tts_path, tts_text>>
texts  == <<original_text, translated_text>>
traces == <<calls, remote, raised>>

-----------------------------------------------------------------------------
(* show_conversation *)

\* Faulty variant: the Patient trigger is served before the Doctor trigger.
Triggered_patient_first(doc_to_pat, pat_to_doc) ==
    (IF pat_to_doc THEN <<"Patient">> ELSE <<>>)
        \o (IF doc_to_pat THEN <<"Doctor">> ELSE <<>>)

Triggered(doc_to_pat, pat_to_doc) ==
    (IF doc_to_pat THEN <<"Doctor">> ELSE <<>>)
        \o (IF pat_to_doc THEN <<"Patient">> ELSE <<>>)

\* The script up to the buttons: _init_history, the two selectboxes, the two
\* microphones, the two buttons.
StartRun ==
    /\ pc = "idle"
    /\ \E doc_rec \in RecorderResults, pat_rec \in RecorderResults,
          doc_to_pat \in BOOLEAN, pat_to_doc \in BOOLEAN :
          /\ Len(conv_history) + Len(Triggered(doc_to_pat, pat_to_doc)) <= MaxTurns
          /\ conv_history' = _init_history(has_history, conv_history)
          /\ has_history' = TRUE
          /\ audio_bytes' = [NoAudio EXCEPT !["conv_doc_mic"] = doc_rec,
                                             !["conv_pat_mic"] = pat_rec]
          /\ last_audio' =
                [k \in AllMicKeys |->
                    IF k \in MicKeys
                    THEN medical_mic(last_audio[k],
                                     IF k = "conv_doc_mic" THEN doc_rec
                                                           ELSE pat_rec)
                    ELSE last_audio[k]]
          /\ todo' = Triggered(doc_to_pat, pat_to_doc)
    /\ pc' = "triggers"
    /\ UNCHANGED <<doctor_lang, patient_lang, pdf, warned, lang_code,
                   uploaded, image, shown, params, files, texts, traces, exc,
                   played, hist_before>>

\* _render_history and _download_history_pdf_button only read the history.
\* An exception of the export leaves show_conversation as its last statement.
RenderExport ==
    /\ pc = "triggers"
    /\ todo = <<>>
    /\ pdf' = _download_history_pdf_button(conv_history)
    /\ pc' = "exported"
    /\ UNCHANGED <<conv_history, session, warned, lang_code, widgets, image,
                   shown, todo, params, files, texts, traces, exc, played,
                   hist_before>>

\* The script run is over; the page waits for the next interaction.
EndRun ==
    /\ pc = "exported"
    /\ pc' = "idle"
    /\ audio_bytes' = NoAudio
    /\ UNCHANGED <<conv_history, session, pdf, warned, lang_code, uploaded,
                   image, shown, todo, params, files, texts, traces, exc,
                   played, hist_before>>


-----------------------------------------------------------------------------
(* _process_turn *)

\* Outcomes of creating and filling the temporary WAV file.
TempFileOutcomes == {"ok", "create_fail", "write_fail"}

\* Lines 127-153: validation and the temporary WAV file.  Nothing here is
\* inside the try block, so an exception leaves the function at once.
BeginTurn ==
    /\ pc = "triggers"
    /\ todo # <<>>
    /\ LET r     == Head(todo)
           audio == IF r = "Doctor" THEN last_audio["conv_doc_mic"]
                                    ELSE last_audio["conv_pat_mic"]
       IN  /\ role' = r
           /\ audio_data' = audio
           /\ src_lang' = IF r = "Doctor" THEN doctor_lang ELSE patient_lang
           /\ tgt_lang' = IF r = "Doctor" THEN patient_lang ELSE doctor_lang
           /\ todo' = Tail(todo)
           /\ hist_before' = conv_history
           /\ IF audio = "None"
              THEN /\ pc' = "returned"
                   /\ UNCHANGED <<wav_file, exc>>
              ELSE \E fs \in TempFileOutcomes :
                      /\ wav_file' = CASE fs = "create_fail" -> "none"
                                       [] fs = "write_fail" -> "empty"
                                       [] fs = "ok" ->
                                            IF audio = "empty" THEN "empty"
                                                               ELSE "data"
                      /\ exc' = CASE fs = "create_fail" -> "tempfile"
                                  [] fs = "write_fail" -> "write"
                                  [] fs = "ok" -> "none"
                      /\ pc' = IF fs = "ok" THEN "stt" ELSE "returned"
    /\ UNCHANGED <<conv_history, session, apart, texts, tts_file, tts_path,
                   tts_text, traces, played>>

\* Faulty variant: the recognized text is not checked, so an empty
\* transcription goes on to translation.
Transcribe_unchecked ==
    /\ pc = "stt"
    /\ \E ans \in SttAnswersFor(audio_data) :
          LET r == speech_to_text(audio_data, ans)
          IN  /\ original_text' = IF r.escapes THEN original_text ELSE r.ret
              /\ calls' = Append(calls, "stt")
              /\ remote' = IF r.remote THEN Append(remote, "stt") ELSE remote
              /\ raised' = IF r.raised THEN raised \cup {"stt"} ELSE raised
              /\ exc' = IF r.escapes THEN "stt" ELSE exc
              /\ pc' = IF r.escapes THEN "finally" ELSE "translate"
    /\ UNCHANGED <<conv_history, session, apart, todo, params, translated_text, files,
                   played, hist_before>>

\* Lines 157-163.
Transcribe ==
    /\ pc = "stt"
    /\ \E ans \in SttAnswersFor(audio_data) :
          LET r == speech_to_text(audio_data, ans)
          IN  /\ original_text' = IF r.escapes THEN original_text ELSE r.ret
              /\ calls' = Append(calls, "stt")
              /\ remote' = IF r.remote THEN Append(remote, "stt") ELSE remote
              /\ raised' = IF r.raised THEN raised \cup {"stt"} ELSE raised
              /\ exc' = IF r.escapes THEN "stt" ELSE exc
              /\ pc' = IF r.escapes \/ IsBlank(r.ret) THEN "finally"
                                                      ELSE "translate"
    /\ UNCHANGED <<conv_history, session, apart, todo, params, translated_text, files,
                   played, hist_before>>

\* Faulty variant: a failed translation request is tried again.
Translate_retry ==
    /\ pc = "translate"
    /\ \E ans \in TranslateAnswers :
          LET r == translate_text(original_text, src_lang, tgt_lang, ans)
          IN  /\ translated_text' = IF r.escapes THEN translated_text ELSE r.ret
              /\ calls' = Append(calls, "translate")
              /\ remote' = IF r.remote THEN Append(remote, "translate") ELSE remote
              /\ raised' = IF r.raised THEN raised \cup {"translate"} ELSE raised
              /\ exc' = IF r.escapes THEN "translate" ELSE exc
              /\ pc' = IF r.escapes THEN "finally"
                       ELSE IF r.raised /\ "translate" \notin raised
                            THEN "translate"
                            ELSE "append"
    /\ UNCHANGED <<conv_history, session, apart, todo, params, original_text, files,
                   played, hist_before>>

\* Line 167.
Translate ==
    /\ pc = "translate"
    /\ \E ans \in TranslateAnswers :
          LET r == translate_text(original_text, src_lang, tgt_lang, ans)
          IN  /\ translated_text' = IF r.escapes THEN translated_text ELSE r.ret
              /\ calls' = Append(calls, "translate")
              /\ remote' = IF r.remote THEN Append(remote, "translate") ELSE remote
              /\ raised' = IF r.raised THEN raised \cup {"translate"} ELSE raised
              /\ exc' = IF r.escapes THEN "translate" ELSE exc
              /\ pc' = IF r.escapes THEN "finally" ELSE "append"
    /\ UNCHANGED <<conv_history, session, apart, todo, params, original_text, files,
                   played, hist_before>>

\* Faulty variant: only the empty string skips synthesis, a translation of
\* whitespace is handed to it.
AppendTurn_speak_whitespace ==
    /\ pc = "append"
    /\ conv_history' = _append_message(conv_history, role, src_lang, tgt_lang,
                                       original_text, translated_text)
    /\ pc' = IF translated_text = <<>> THEN "finally" ELSE "tts"
    /\ UNCHANGED <<session, apart, todo, params, texts, files, traces, exc, played,
                   hist_before>>

\* Faulty variant: the turn is added only on the path that skips synthesis,
\* as if the append had been moved behind the synthesis branch.
AppendTurn_behind_speech ==
    /\ pc = "append"
    /\ conv_history' =
          IF IsBlank(translated_text)
          THEN _append_message(conv_history, role, src_lang, tgt_lang,
                               original_text, translated_text)
          ELSE conv_history
    /\ pc' = IF IsBlank(translated_text) THEN "finally" ELSE "tts"
    /\ UNCHANGED <<session, apart, todo, params, texts, files, traces, exc, played,
                   hist_before>>

\* Lines 170-180: show the texts, add the turn to the history, decide
\* whether there is something to speak.
AppendTurn ==
    /\ pc = "append"
    /\ conv_history' = _append_message(conv_history, role, src_lang, tgt_lang,
                                       original_text, translated_text)
    /\ pc' = IF IsBlank(translated_text) THEN "finally" ELSE "tts"
    /\ UNCHANGED <<session, apart, todo, params, texts, files, traces, exc, played,
                   hist_before>>

\* Lines 181-182.
Synthesize ==
    /\ pc = "tts"
    /\ \E ans \in TtsAnswers :
          LET r == text_to_speech_file(translated_text, tgt_lang, ans)
          IN  /\ tts_text' = translated_text
              /\ tts_path' = (r.path /\ ~r.escapes)
              /\ tts_file' = r.file
              /\ calls' = Append(calls, "tts")
              /\ remote' = IF r.remote THEN Append(remote, "tts") ELSE remote
              /\ raised' = IF r.raised THEN raised \cup {"tts"} ELSE raised
              /\ exc' = IF r.escapes THEN "tts" ELSE exc
              /\ pc' = IF r.path /\ ~r.escapes THEN "play" ELSE "finally"
    /\ UNCHANGED <<conv_history, session, apart, todo, params, texts, wav_file,
                   played, hist_before>>

\* Outcomes of reading the MP3 back and handing it to st.audio.
PlayOutcomes == {"ok", "read_fail", "play_fail"}

\* Lines 183-186: an exception of open/read or st.audio skips the cleanup of
\* the MP3 and leaves through the finally block.
Playback ==
    /\ pc = "play"
    /\ \E po \in PlayOutcomes, os_ok \in BOOLEAN :
          /\ played' = (po = "ok")
          /\ exc' = CASE po = "read_fail" -> "read"
                      [] po = "play_fail" -> "play"
                      [] po = "ok" -> "none"
          /\ tts_file' = IF po = "ok" THEN cleanup_temp_file(tts_file, os_ok)
                                      ELSE tts_file
    /\ pc' = "finally"
    /\ UNCHANGED <<conv_history, session, apart, todo, params, texts, wav_file,
                   tts_path, tts_text, traces, hist_before>>

\* Faulty variant: the finally block also clears the recording that was
\* processed, the way a one-shot widget would.
Finally_consumes ==
    /\ pc = "finally"
    /\ \E os_ok \in BOOLEAN : wav_file' = cleanup_temp_file(wav_file, os_ok)
    /\ last_audio' =
          [last_audio EXCEPT ![IF role = "Doctor" THEN "conv_doc_mic"
                                                  ELSE "conv_pat_mic"] = "None"]
    /\ pc' = "returned"
    /\ UNCHANGED <<conv_history, has_history, doctor_lang, patient_lang, apart,
                   todo, params, texts, tts_file, tts_path, tts_text, traces,
                   exc, played, hist_before>>

\* Lines 187-189.
Finally ==
    /\ pc = "finally"
    /\ \E os_ok \in BOOLEAN : wav_file' = cleanup_temp_file(wav_file, os_ok)
    /\ pc' = "returned"
    /\ UNCHANGED <<conv_history, session, apart, todo, params, texts, tts_file,
                   tts_path, tts_text, traces, exc, played, hist_before>>

\* The invocation is over.  Its locals go away; an exception that left it
\* ends the script run (no further trigger, no rendering of the history).
Return ==
    /\ pc = "returned"
    /\ pc' = IF exc = "none" THEN "triggers" ELSE "idle"
    /\ todo' = IF exc = "none" THEN todo ELSE <<>>
    /\ role' = "-"
    /\ audio_data' = "None"
    /\ src_lang' = "-"
    /\ tgt_lang' = "-"
    /\ wav_file' = "none"
    /\ original_text' = NoText
    /\ translated_text' = NoText
    /\ tts_file' = "none"
    /\ tts_path' = FALSE
    /\ tts_text' = NoText
    /\ calls' = <<>>
    /\ remote' = <<>>
    /\ raised' = {}
    /\ exc' = "none"
    /\ played' = FALSE
    /\ hist_before' = <<>>
    /\ audio_bytes' = IF exc = "none" THEN audio_bytes ELSE NoAudio
    /\ UNCHANGED <<conv_history, session, pdf, warned, lang_code, uploaded,
                   image, shown>>

Next ==
    \/ StartRun
    \/ RenderExport
    \/ EndRun
    \/ BeginTurn
    \/ Transcribe
    \/ Translate
    \/ AppendTurn
    \/ Synthesize
    \/ Playback
    \/ Finally
    \/ Return

Spec == Init /\ [][Next]_vars

-----------------------------------------------------------------------------
(* main_app.py: show_speech_tab *)

\* One run of the script on the Translator page up to the try block: the
\* two selectboxes, the support warning, the uploader, the microphone, the
\* button, the choice of the audio and the temporary WAV file.  An
\* exception of the temporary file is outside the try and leaves the tab.
SpeechStart ==
    /\ pc = "sp_idle"
    /\ \E src_lang_name \in TranslatorLanguages \cap get_language_list,
          tgt_lang_name \in UiLanguages,
          upl \in RecorderResults, rec \in RecorderResults,
          translate_clicked \in BOOLEAN, fs \in TempFileOutcomes :
          LET mic_audio == medical_mic(last_audio["translator_patient"], rec)
              audio     == IF upl # "None" THEN upl ELSE mic_audio
              runs      == translate_clicked /\ audio # "None"
          IN  /\ src_lang' = src_lang_name
              /\ tgt_lang' = tgt_lang_name
              /\ warned' = ~has_sr_support(src_lang_name)
              /\ uploaded' = upl
              /\ audio_bytes' = [NoAudio EXCEPT !["translator_patient"] = rec]
              /\ last_audio' =
                    [last_audio EXCEPT !["translator_patient"] = mic_audio]
              /\ audio_data' = IF runs THEN audio ELSE "None"
              /\ wav_file' = CASE ~runs -> "none"
                               [] fs = "create_fail" -> "none"
                               [] fs = "write_fail" -> "empty"
                               [] OTHER -> IF audio = "empty" THEN "empty"
                                                              ELSE "data"
              /\ exc' = CASE ~runs -> "none"
                          [] fs = "create_fail" -> "tempfile"
                          [] fs = "write_fail" -> "write"
                          [] OTHER -> "none"
              /\ pc' = IF runs /\ fs = "ok" THEN "sp_stt" ELSE "sp_done"
    /\ UNCHANGED <<conv_history, has_history, doctor_lang, patient_lang, pdf,
                   lang_code, image, shown, todo, role, texts, tts_file,
                   tts_path, tts_text, traces, played, hist_before>>

\* Lines 266-275: an unusable transcription returns from inside the try.
SpeechTranscribe ==
    /\ pc = "sp_stt"
    /\ \E ans \in SttAnswersFor(audio_data) :
          LET r == speech_to_text(audio_data, ans)
          IN  /\ original_text' = IF r.escapes THEN original_text ELSE r.ret
              /\ calls' = Append(calls, "stt")
              /\ remote' = IF r.remote THEN Append(remote, "stt") ELSE remote
              /\ raised' = IF r.raised THEN raised \cup {"stt"} ELSE raised
              /\ pc' = IF r.escapes \/ IsBlank(r.ret) THEN "sp_finally"
                                                      ELSE "sp_translate"
    /\ UNCHANGED <<conv_history, session, apart, todo, params,
                   translated_text, files, exc, played, hist_before>>

\* Lines 278-283, 297-298: the translation, and whether it is spoken.
SpeechTranslate ==
    /\ pc = "sp_translate"
    /\ \E ans \in TranslateAnswers :
          LET r == translate_text(original_text, src_lang, tgt_lang, ans)
          IN  /\ translated_text' = IF r.escapes THEN translated_text
                                                 ELSE r.ret
              /\ calls' = Append(calls, "translate")
              /\ remote' = IF r.remote THEN Append(remote, "translate")
                                       ELSE remote
              /\ raised' = IF r.raised THEN raised \cup {"translate"}
                                       ELSE raised
              /\ pc' = IF r.escapes \/ IsBlank(r.ret) THEN "sp_finally"
                                                      ELSE "sp_tts"
    /\ UNCHANGED <<conv_history, session, apart, todo, params, original_text,
                   files, exc, played, hist_before>>

\* Lines 284-285, 291-296.
SpeechSynthesize ==
    /\ pc = "sp_tts"
    /\ \E ans \in TtsAnswers :
          LET r == text_to_speech_file(translated_text, tgt_lang, ans)
          IN  /\ tts_text' = translated_text
              /\ tts_path' = (r.path /\ ~r.escapes)
              /\ tts_file' = r.file
              /\ calls' = Append(calls, "tts")
              /\ remote' = IF r.remote THEN Append(remote, "tts") ELSE remote
              /\ raised' = IF r.raised THEN raised \cup {"tts"} ELSE raised
              /\ pc' = IF r.path /\ ~r.escapes THEN "sp_play"
                                                ELSE "sp_finally"
    /\ UNCHANGED <<conv_history, session, apart, todo, params, texts,
                   wav_file, exc, played, hist_before>>

\* Lines 286-290: an exception of open/read or st.audio skips the cleanup
\* of the MP3 and is shown by the except clause at lines 300-301.
SpeechPlayback ==
    /\ pc = "sp_play"
    /\ \E po \in PlayOutcomes, os_ok \in BOOLEAN :
          /\ played' = (po = "ok")
          /\ tts_file' = IF po = "ok" THEN cleanup_temp_file(tts_file, os_ok)
                                      ELSE tts_file
          /\ shown' = IF po = "ok"
                       THEN shown
                       ELSE shown \cup {"Error while translating speech"}
    /\ pc' = "sp_finally"
    /\ UNCHANGED <<conv_history, session, pdf, warned, lang_code, widgets,
                   image, todo, params, texts, wav_file, tts_path, tts_text,
                   traces, exc, hist_before>>

\* Lines 302-303.
SpeechFinally ==
    /\ pc = "sp_finally"
    /\ \E os_ok \in BOOLEAN : wav_file' = cleanup_temp_file(wav_file, os_ok)
    /\ pc' = "sp_done"
    /\ UNCHANGED <<conv_history, session, apart, todo, params, texts,
                   tts_file, tts_path, tts_text, traces, exc, played,
                   hist_before>>

\* The run of the script is over; its locals go away and the page waits.
SpeechReturn ==
    /\ pc = "sp_done"
    /\ pc' = "sp_idle"
    /\ warned' = FALSE
    /\ audio_data' = "None"
    /\ src_lang' = "-"
    /\ tgt_lang' = "-"
    /\ wav_file' = "none"
    /\ original_text' = NoText
    /\ translated_text' = NoText
    /\ tts_file' = "none"
    /\ tts_path' = FALSE
    /\ tts_text' = NoText
    /\ calls' = <<>>
    /\ remote' = <<>>
    /\ raised' = {}
    /\ exc' = "none"
    /\ played' = FALSE
    /\ audio_bytes' = NoAudio
    /\ uploaded' = "None"
    /\ shown' = {}
    /\ extracted' = NoText
    /\ UNCHANGED <<conv_history, session, pdf, lang_code, img_text_input,
                   todo, role, hist_before>>

-----------------------------------------------------------------------------
(* main_app.py: show_text_tab *)

\* What the user may have typed into a text area.
TypedTexts == {<<>>, <<" ">>, <<"a">>, <<" ", "a", " ">>}

\* A run of the script in which Translate Text was clicked: lines 310-368.
TextStart ==
    /\ pc = "sp_idle"
    /\ \E src_lang_name \in TranslatorLanguages \cap get_language_list,
          tgt_lang_name \in UiLanguages, text_input \in TypedTexts :
          /\ src_lang' = src_lang_name
          /\ tgt_lang' = tgt_lang_name
          /\ original_text' = text_input
          /\ shown' = IF IsBlank(text_input)
                       THEN {"Please enter some text to translate"}
                       ELSE {}
          /\ pc' = IF IsBlank(text_input) THEN "sp_done" ELSE "tx_translate"
    /\ UNCHANGED <<conv_history, session, pdf, warned, lang_code, widgets,
                   image, todo, role, audio_data, translated_text, files,
                   traces, exc, played, hist_before>>

\* Faulty variant: the text tab recording its translation in the
\* conversation log, as the Chat page does.
TextTranslate_logged ==
    /\ pc = "tx_translate"
    /\ \E ans \in TranslateAnswers, tts_toggle \in BOOLEAN :
          LET r == translate_text(original_text, src_lang, tgt_lang, ans)
          IN  /\ translated_text' = r.ret
              /\ conv_history' = _append_message(conv_history, "Patient",
                                                 src_lang, tgt_lang,
                                                 original_text, r.ret)
              /\ calls' = Append(calls, "translate")
              /\ remote' = IF r.remote THEN Append(remote, "translate")
                                       ELSE remote
              /\ raised' = IF r.raised THEN raised \cup {"translate"}
                                       ELSE raised
              /\ pc' = IF tts_toggle /\ ~IsBlank(r.ret) THEN "tx_tts"
                                                         ELSE "sp_done"
    /\ UNCHANGED <<session, apart, todo, params, original_text, files, exc,
                   played, hist_before>>

\* Lines 370-377: the translation, and whether it is spoken.
TextTranslate ==
    /\ pc = "tx_translate"
    /\ \E ans \in TranslateAnswers, tts_toggle \in BOOLEAN :
          LET r == translate_text(original_text, src_lang, tgt_lang, ans)
          IN  /\ translated_text' = IF r.escapes THEN translated_text
                                                 ELSE r.ret
              /\ calls' = Append(calls, "translate")
              /\ remote' = IF r.remote THEN Append(remote, "translate")
                                       ELSE remote
              /\ raised' = IF r.raised THEN raised \cup {"translate"}
                                       ELSE raised
              /\ shown' = IF r.escapes
                           THEN shown \cup {"Error while translating text"}
                           ELSE shown
              /\ pc' = IF ~r.escapes /\ tts_toggle /\ ~IsBlank(r.ret)
                        THEN "tx_tts" ELSE "sp_done"
    /\ UNCHANGED <<conv_history, session, pdf, warned, lang_code, widgets,
                   image, todo, params, original_text, files, exc, played,
                   hist_before>>

\* Lines 378-379, 385-389.
TextSynthesize ==
    /\ pc = "tx_tts"
    /\ \E ans \in TtsAnswers :
          LET r == text_to_speech_file(translated_text, tgt_lang, ans)
          IN  /\ tts_text' = translated_text
              /\ tts_path' = (r.path /\ ~r.escapes)
              /\ tts_file' = r.file
              /\ calls' = Append(calls, "tts")
              /\ remote' = IF r.remote THEN Append(remote, "tts") ELSE remote
              /\ raised' = IF r.raised THEN raised \cup {"tts"} ELSE raised
              /\ shown' = IF r.escapes
                           THEN shown \cup {"Error while translating text"}
                           ELSE shown
              /\ pc' = IF r.path /\ ~r.escapes THEN "tx_play" ELSE "sp_done"
    /\ UNCHANGED <<conv_history, session, pdf, warned, lang_code, widgets,
                   image, todo, params, texts, wav_file, exc, played,
                   hist_before>>

\* Lines 380-384, 390-391: an exception of open/read or st.audio skips the
\* cleanup of the MP3 and is shown by the except clause.
TextPlayback ==
    /\ pc = "tx_play"
    /\ \E po \in PlayOutcomes, os_ok \in BOOLEAN :
          /\ played' = (po = "ok")
          /\ tts_file' = IF po = "ok" THEN cleanup_temp_file(tts_file, os_ok)
                                      ELSE tts_file
          /\ shown' = IF po = "ok"
                       THEN shown
                       ELSE shown \cup {"Error while translating text"}
    /\ pc' = "sp_done"
    /\ UNCHANGED <<conv_history, session, pdf, warned, lang_code, widgets,
                   image, todo, params, texts, wav_file, tts_path, tts_text,
                   traces, exc, hist_before>>

-----------------------------------------------------------------------------
(* main_app.py: extract_text_from_image, show_image_tab *)

\* Answers of EasyOCR: the lines it read, or an exception of opening the
\* image, of building the reader or of reading.
OcrLines ==
    {<<>>, << <<" ">> >>, << <<"a">> >>, << <<"a">>, <<"b">> >>,
     << <<" ", "a">>, <<>> >>}

OcrAnswers ==
    {[kind |-> "lines", lines |-> ls] : ls \in OcrLines}
        \cup {[kind |-> "raise", lines |-> <<>>]}

\* "\n".join(result)
RECURSIVE JoinLines(_)
JoinLines(ls) ==
    IF ls = <<>> THEN <<>>
    ELSE IF Len(ls) = 1 THEN ls[1]
    ELSE ls[1] \o <<"\n">> \o JoinLines(Tail(ls))

\* f"[OCR error: {e}]"
OcrErrorText == <<"[OCR error", ":", " ", "e", "]">>

\* Faulty variant: extract_text_from_image without its except clause.
extract_text_from_image_uncaught(ans) ==
    IF ans.kind = "raise"
    THEN [ret |-> <<>>, raised |-> TRUE, escapes |-> TRUE]
    ELSE [ret |-> Strip(JoinLines(ans.lines)), raised |-> FALSE,
          escapes |-> FALSE]

\* extract_text_from_image: the joined lines, stripped; every exception is
\* turned into an error text.
extract_text_from_image(ans) ==
    IF ans.kind = "raise"
    THEN [ret |-> OcrErrorText, raised |-> TRUE, escapes |-> FALSE]
    ELSE [ret |-> Strip(JoinLines(ans.lines)), raised |-> FALSE,
          escapes |-> FALSE]

MAX_TTS_CHARS == 3000

\* translated[:MAX_TTS_CHARS]
Truncate(s, n) == IF Len(s) <= n THEN s ELSE SubSeq(s, 1, n)

\* A run in which an image is uploaded and Extract Text from Image was
\* clicked: lines 441-468.  The text area is rendered after the session
\* key was set, so it shows the extracted text.
ImageExtract ==
    /\ pc = "sp_idle"
    /\ \E ans \in OcrAnswers :
          LET r  == extract_text_from_image(ans)
              ex == Strip(r.ret)
          IN  /\ original_text' = JoinLines(ans.lines)
              /\ calls' = <<"ocr">>
              /\ remote' = <<"ocr">>
              /\ raised' = IF r.raised THEN {"ocr"} ELSE {}
              /\ exc' = IF r.escapes THEN "ocr" ELSE "none"
              /\ extracted' = IF r.escapes THEN NoText ELSE r.ret
              /\ img_text_input' = IF r.escapes THEN img_text_input ELSE ex
              /\ shown' =
                    CASE r.escapes -> {}
                      [] ex = <<>> -> {"No text could be confidently extracted"}
                      [] Head(ex) = "[OCR error" ->
                            {"There was an error while reading the text"}
                      [] OTHER -> {}
    /\ pc' = "sp_done"
    /\ UNCHANGED <<conv_history, session, pdf, warned, lang_code, widgets,
                   todo, params, translated_text, files, played, hist_before>>

\* A run in which Translate Above Text was clicked, the user having typed
\* into the text area or left it as it was: lines 472-488.
ImageStart ==
    /\ pc = "sp_idle"
    /\ \E src_lang_name \in TranslatorLanguages \cap get_language_list,
          tgt_lang_name \in UiLanguages,
          editable_text \in TypedTexts \cup {img_text_input} :
          LET final_text == Strip(editable_text)
          IN  /\ src_lang' = src_lang_name
              /\ tgt_lang' = tgt_lang_name
              /\ img_text_input' = editable_text
              /\ original_text' = final_text
              /\ shown' = IF final_text = <<>>
                           THEN {"Please enter the text from the image"}
                           ELSE {}
              /\ pc' = IF final_text = <<>> THEN "sp_done"
                                            ELSE "im_translate"
    /\ UNCHANGED <<conv_history, session, pdf, warned, lang_code, widgets,
                   extracted, todo, role, audio_data, translated_text, files,
                   traces, exc, played, hist_before>>

\* Lines 490-500: the translation is outside any try block.
ImageTranslate ==
    /\ pc = "im_translate"
    /\ \E ans \in TranslateAnswers :
          LET r == translate_text(original_text, src_lang, tgt_lang, ans)
          IN  /\ translated_text' = IF r.escapes THEN translated_text
                                                 ELSE r.ret
              /\ calls' = Append(calls, "translate")
              /\ remote' = IF r.remote THEN Append(remote, "translate")
                                       ELSE remote
              /\ raised' = IF r.raised THEN raised \cup {"translate"}
                                       ELSE raised
              /\ exc' = IF r.escapes THEN "translate" ELSE exc
              /\ pc' = IF ~r.escapes /\ ~IsBlank(r.ret) THEN "im_tts"
                                                         ELSE "sp_done"
    /\ UNCHANGED <<conv_history, session, apart, todo, params, original_text,
                   files, played, hist_before>>

\* Lines 501-506, 512-513.
ImageSynthesize ==
    /\ pc = "im_tts"
    /\ \E ans \in TtsAnswers :
          LET tts_input == Truncate(translated_text, MAX_TTS_CHARS)
              r == text_to_speech_file(tts_input, tgt_lang, ans)
          IN  /\ tts_text' = tts_input
              /\ tts_path' = (r.path /\ ~r.escapes)
              /\ tts_file' = r.file
              /\ calls' = Append(calls, "tts")
              /\ remote' = IF r.remote THEN Append(remote, "tts") ELSE remote
              /\ raised' = IF r.raised THEN raised \cup {"tts"} ELSE raised
              /\ shown' = IF r.escapes
                           THEN shown \cup {"Error while generating TTS"}
                           ELSE shown
              /\ pc' = IF r.path /\ ~r.escapes THEN "im_play" ELSE "sp_done"
    /\ UNCHANGED <<conv_history, session, pdf, warned, lang_code, widgets,
                   image, todo, params, texts, wav_file, exc, played,
                   hist_before>>

\* Lines 507-511, 514-515.
ImagePlayback ==
    /\ pc = "im_play"
    /\ \E po \in PlayOutcomes, os_ok \in BOOLEAN :
          /\ played' = (po = "ok")
          /\ tts_file' = IF po = "ok" THEN cleanup_temp_file(tts_file, os_ok)
                                      ELSE tts_file
          /\ shown' = IF po = "ok"
                       THEN shown
                       ELSE shown \cup {"Error while generating TTS"}
    /\ pc' = "sp_done"
    /\ UNCHANGED <<conv_history, session, pdf, warned, lang_code, widgets,
                   image, todo, params, texts, wav_file, tts_path, tts_text,
                   traces, exc, hist_before>>

\* What a visit of the Chat page may have left in the session before the
\* user moves to the Translator page: nothing, or a log of one Turn with
\* the recording it was made from.
EarlierChats ==
    {[log |-> <<>>, doc |-> "None"],
     [log |-> <<[speaker    |-> "Doctor",
                 src_lang   |-> "English",
                 tgt_lang   |-> "Hindi",
                 original   |-> <<"a">>,
                 translated |-> <<"b">>]>>,
      doc |-> "wav"]}

\* main: the sidebar sends the session to the Translator page or to the
\* Chat page.  The two pages have no session key in common, so a session
\* is followed on the page it works with; on the Translator page it may
\* carry what an earlier visit of the Chat page left.
InitApp ==
    /\ \/ /\ pc = "idle"
          /\ conv_history = <<>>
          /\ has_history = FALSE
          /\ last_audio = NoAudio
          /\ doctor_lang \in UiLanguages
          /\ patient_lang \in UiLanguages
          /\ pdf = NoPdf
       \/ /\ pc = "sp_idle"
          /\ \E chat \in EarlierChats :
                /\ conv_history = chat.log
                /\ has_history = (chat.log # <<>>)
                /\ last_audio = [NoAudio EXCEPT !["conv_doc_mic"] = chat.doc]
                /\ pdf = _download_history_pdf_button(chat.log)
          /\ doctor_lang = "English"
          /\ patient_lang = "Hindi"
    /\ todo = <<>>
    /\ role = "-"
    /\ audio_data = "None"
    /\ src_lang = "-"
    /\ tgt_lang = "-"
    /\ wav_file = "none"
    /\ original_text = NoText
    /\ translated_text = NoText
    /\ tts_file = "none"
    /\ tts_path = FALSE
    /\ tts_text = NoText
    /\ calls = <<>>
    /\ remote = <<>>
    /\ raised = {}
    /\ exc = "none"
    /\ played = FALSE
    /\ hist_before = <<>>
    /\ warned = FALSE
    /\ lang_code = "-"
    /\ audio_bytes = NoAudio
    /\ uploaded = "None"
    /\ shown = {}
    /\ img_text_input = NoText
    /\ extracted = NoText

NextApp ==
    \/ Next
    \/ SpeechStart
    \/ SpeechTranscribe
    \/ SpeechTranslate
    \/ SpeechSynthesize
    \/ SpeechPlayback
    \/ SpeechFinally
    \/ SpeechReturn
    \/ TextStart
    \/ TextTranslate
    \/ TextSynthesize
    \/ TextPlayback
    \/ ImageExtract
    \/ ImageStart
    \/ ImageTranslate
    \/ ImageSynthesize
    \/ ImagePlayback

SpecApp == InitApp /\ [][NextApp]_vars

-----------------------------------------------------------------------------
(* Direct calls of the library functions *)

\* Names that are not keys of the catalog: other spellings of catalog names,
\* codes, the empty string, names of languages the catalog lacks.
OtherNames ==
    {"", " ", "english", "ENGLISH", "English ", "en", "hi", "zh-cn", "Chinese",
     "Persian", "Klingon", "Sanskrit", "Latin", "auto"}

LanguageNames == DOMAIN SUPPORTED_LANGUAGES \cup OtherNames

TextChars == {" ", "a"}

\* The texts of at most MaxTextLen characters.
CallTexts == UNION {[1..n -> TextChars] : n \in 0..MaxTextLen}

\* Target names of a direct translate_text call: two names of the catalog
\* and one outside it.
TargetNames == {"English", "Hindi", "Klingon"}

\* A caller holds two language names and a text and has called nothing yet.
InitCalls ==
    /\ conv_history = <<>>
    /\ has_history = FALSE
    /\ last_audio = NoAudio
    /\ doctor_lang = "English"
    /\ patient_lang = "English"
    /\ pc = "call"
    /\ todo = <<>>
    /\ role = "-"
    /\ audio_data = "None"
    /\ src_lang \in LanguageNames
    /\ tgt_lang \in TargetNames
    /\ wav_file = "none"
    /\ original_text \in CallTexts
    /\ translated_text = NoText
    /\ tts_file = "none"
    /\ tts_path = FALSE
    /\ tts_text = original_text
    /\ calls = <<>>
    /\ remote = <<>>
    /\ raised = {}
    /\ exc = "none"
    /\ played = FALSE
    /\ hist_before = <<>>
    /\ pdf = NoPdf
    /\ warned = FALSE
    /\ lang_code = "-"
    /\ audio_bytes = NoAudio
    /\ uploaded = "None"
    /\ shown = {}
    /\ img_text_input = NoText
    /\ extracted = NoText

\* lang_code_for_translation(src_lang)
CallLangCode ==
    /\ pc = "call"
    /\ lang_code' = lang_code_for_translation(src_lang)
    /\ calls' = <<"lang_code">>
    /\ pc' = "called"
    /\ UNCHANGED <<conv_history, session, pdf, warned, widgets, image, shown,
                   todo, params, files, texts, remote, raised, exc, played,
                   hist_before>>

\* text_to_speech_file(tts_text, src_lang)
CallTts ==
    /\ pc = "call"
    /\ \E ans \in TtsAnswers :
          LET r == text_to_speech_file(tts_text, src_lang, ans)
          IN  /\ tts_path' = r.path
              /\ tts_file' = r.file
              /\ remote' = IF r.remote THEN <<"tts">> ELSE <<>>
              /\ raised' = IF r.raised THEN {"tts"} ELSE {}
              /\ exc' = IF r.escapes THEN "tts" ELSE "none"
    /\ calls' = <<"tts">>
    /\ pc' = "called"
    /\ UNCHANGED <<conv_history, session, apart, todo, params, texts,
                   wav_file, tts_text, played, hist_before>>

\* translate_text(original_text, src_lang, tgt_lang)
CallTranslate ==
    /\ pc = "call"
    /\ \E ans \in TranslateAnswers :
          LET r == translate_text(original_text, src_lang, tgt_lang, ans)
          IN  /\ translated_text' = r.ret
              /\ remote' = IF r.remote THEN <<"translate">> ELSE <<>>
              /\ raised' = IF r.raised THEN {"translate"} ELSE {}
              /\ exc' = IF r.escapes THEN "translate" ELSE "none"
    /\ calls' = <<"translate">>
    /\ pc' = "called"
    /\ UNCHANGED <<conv_history, session, apart, todo, params, original_text,
                   files, played, hist_before>>

\* The caller goes on to its next call, with another name or another text.
NextCall ==
    /\ pc = "called"
    /\ pc' = "call"
    /\ \/ /\ src_lang' \in LanguageNames
          /\ UNCHANGED <<tgt_lang, original_text, tts_text>>
       \/ /\ tgt_lang' \in TargetNames
          /\ UNCHANGED <<src_lang, original_text, tts_text>>
       \/ /\ original_text' \in CallTexts
          /\ tts_text' = original_text'
          /\ UNCHANGED <<src_lang, tgt_lang>>
    /\ translated_text' = NoText
    /\ lang_code' = "-"
    /\ tts_path' = FALSE
    /\ tts_file' = "none"
    /\ calls' = <<>>
    /\ remote' = <<>>
    /\ raised' = {}
    /\ exc' = "none"
    /\ UNCHANGED <<conv_history, session, pdf, warned, widgets, image, shown,
                   todo, role, audio_data, wav_file, played, hist_before>>

NextCalls ==
    \/ CallLangCode
    \/ CallTts
    \/ CallTranslate
    \/ NextCall

SpecCalls == InitCalls /\ [][NextCalls]_vars

-----------------------------------------------------------------------------
(* Vocabulary of the properties *)

Range(q) == {q[i] : i \in 1..Len(q)}

IsPrefix(p, q) == Len(p) <= Len(q) /\ SubSeq(q, 1, Len(p)) = p

\* A _process_turn invocation is running or has just ended.
InTurn == pc \in {"stt", "translate", "append", "tts", "play", "finally",
                  "returned"}

\* The invocation has ended; its parameters and locals are still in view.
Ended == pc = "returned"

\* Turns appended by the current invocation.
Appended == Len(conv_history) - Len(hist_before)

LastTurn == conv_history[Len(conv_history)]

\* The transcription step returned a usable text.
Recognized == "stt" \in Range(calls) /\ ~IsBlank(original_text)

-----------------------------------------------------------------------------
(* C1 *)

\* C1: whenever an invocation of _process_turn that created the temporary
\* WAV file ends, that file is no longer on disk - on every exit path,
\* including a failed write of the audio bytes and a failed delete.
C1_WavGoneOnEveryExit == Ended /\ wav_file # "none" => ~OnDisk(wav_file)

-----------------------------------------------------------------------------
(* C2 *)

\* C2: an invocation with non-None audio whose transcription is neither
\* empty nor all-whitespace has appended exactly one Turn when it ends,
\* whatever translation and synthesis did: the history is the history it
\* started from plus one Turn of this role with the recognized text, and at
\* no point of the invocation has more than one Turn been added.
C2_ExactlyOneTurn ==
    /\ InTurn => Appended \in {0, 1} /\ IsPrefix(hist_before, conv_history)
    /\ Ended /\ audio_data # "None" /\ Recognized =>
          /\ Appended = 1
          /\ LastTurn.speaker = role
          /\ LastTurn.original = original_text

\* An invocation ended with one Turn although translation raised and
\* synthesis produced nothing.
C2_Witness ==
    /\ Ended /\ Recognized /\ Appended = 1
    /\ "translate" \in raised
    /\ "tts" \in raised

-----------------------------------------------------------------------------
(* C3 *)

\* C3: when transcription returns an empty or all-whitespace text the
\* invocation stops there: no translation, no synthesis, the history is
\* what it was before the invocation, and the temporary WAV file is gone.
C3_EmptyTranscriptionStops ==
    Ended /\ "stt" \in Range(calls) /\ IsBlank(original_text) =>
        /\ calls = <<"stt">>
        /\ conv_history = hist_before
        /\ ~OnDisk(wav_file)

-----------------------------------------------------------------------------
(* C4 *)

\* C4: with absent audio or an empty byte buffer the invocation does
\* nothing further: no temporary file, no transcription, no Turn.
C4_NoAudioNoSteps ==
    InTurn /\ audio_data \in {"None", "empty"} =>
        /\ wav_file = "none"
        /\ calls = <<>>
        /\ conv_history = hist_before

-----------------------------------------------------------------------------
(* C5 *)

-----------------------------------------------------------------------------
(* C6 *)

-----------------------------------------------------------------------------
(* C7 *)

\* C7: the conversation log is append-only: every step of the session -
\* initialisation on a rerun, rendering, export, any step of a turn,
\* failed or not - leaves the previous log as a prefix of the new one.
C7_AppendOnly == [][IsPrefix(conv_history, conv_history')]_vars

\* A rerun is rendering a log of at least two Turns.
C7_Witness == pc = "triggers" /\ todo = <<>> /\ Len(conv_history) >= 2

-----------------------------------------------------------------------------
(* C8 *)

\* C8: every temporary MP3 created by the synthesis step is off the disk
\* when the invocation ends.
C8_Mp3GoneAtEnd == Ended /\ tts_file # "none" => ~OnDisk(tts_file)

-----------------------------------------------------------------------------
(* C9 *)

\* C9: no exception of the transcription, translation or synthesis service
\* leaves _process_turn; a transcription error ends the invocation like an
\* empty transcription (nothing else called, no Turn), and a synthesis
\* error leaves the recorded Turn in place.
C9_ServiceErrorsContained ==
    /\ exc \notin {"stt", "translate", "tts"}
    /\ Ended /\ "stt" \in raised =>
          calls = <<"stt">> /\ conv_history = hist_before
    /\ Ended /\ "tts" \in raised =>
          Appended = 1 /\ LastTurn.original = original_text

\* An invocation ended after the synthesis service raised.
C9_Witness == Ended /\ "tts" \in raised /\ exc = "none" /\ Appended = 1

-----------------------------------------------------------------------------
(* C10 *)

\* C10: the Turn is in the log before the synthesis service is invoked and
\* stays there; when synthesis fails or returns no artifact the invocation
\* ends without audio playback.
C10_TurnBeforeSynthesis ==
    /\ pc = "tts" \/ "tts" \in Range(calls) =>
          /\ Appended = 1
          /\ LastTurn.translated = translated_text
    /\ Ended /\ "tts" \in Range(calls) /\ ~tts_path => ~played

\* Synthesis returned no artifact and the invocation ended with its Turn.
C10_Witness ==
    /\ Ended /\ "tts" \in Range(calls) /\ ~tts_path
    /\ Appended = 1 /\ ~played

-----------------------------------------------------------------------------
(* C11 *)

\* The translation step of the current invocation has returned.
Translated == "translate" \in Range(calls) /\ exc # "translate"

\* C11: synthesis is invoked in an invocation exactly when the text of the
\* translation step is neither empty nor all-whitespace; with an empty or
\* all-whitespace translation the Turn is still recorded, holding that
\* text, and neither the synthesis wrapper nor its engine is called.
C11_SynthesisIffText ==
    /\ "tts" \in Range(calls) => Translated /\ ~IsBlank(translated_text)
    /\ "tts" \in Range(remote) <=> "tts" \in Range(calls)
    /\ Ended /\ Translated =>
          /\ Appended = 1
          /\ LastTurn.translated = translated_text
          /\ "tts" \in Range(calls) <=> ~IsBlank(translated_text)

\* An invocation ended with a Turn whose translation is whitespace and
\* without a synthesis call.
C11_Witness ==
    /\ Ended /\ Translated /\ Appended = 1
    /\ LastTurn.translated = <<" ">>
    /\ "tts" \notin Range(calls)

-----------------------------------------------------------------------------
(* C12 *)

ServiceOrder == <<"stt", "translate", "tts">>

\* q lists some of the services, each at most once, in the pipeline order.
RECURSIVE InOrder(_, _)
InOrder(q, order) ==
    IF q = <<>> THEN TRUE
    ELSE IF order = <<>> THEN FALSE
    ELSE IF Head(q) = Head(order) THEN InOrder(Tail(q), Tail(order))
    ELSE InOrder(q, Tail(order))

\* C12: within one invocation the services are called in the order
\* transcribe, translate, synthesize, each at most once, also after a
\* failure or an empty result: the wrappers entered form a prefix of that
\* order and the engines requested a sub-list of it.
C12_OrderedAtMostOnce ==
    /\ IsPrefix(calls, ServiceOrder)
    /\ InOrder(remote, ServiceOrder)
    /\ \A s \in raised : s \in Range(calls)

\* An invocation called all three services although translation and
\* synthesis raised.
C12_Witness ==
    /\ Ended /\ calls = ServiceOrder
    /\ raised = {"translate", "tts"}

-----------------------------------------------------------------------------
(* C16 *)

\* C16: every Turn of the log has a source text that is neither empty nor
\* all-whitespace, and a Turn is appended only after transcription
\* returned such a text and the translation step has returned.
C16_TurnsHaveSourceText ==
    /\ \A i \in 1..Len(conv_history) : ~IsBlank(conv_history[i].original)
    /\ InTurn /\ Appended >= 1 =>
          /\ Recognized
          /\ Translated
          /\ SubSeq(calls, 1, 2) = <<"stt", "translate">>
          /\ LastTurn.original = original_text

\* The log holds a Turn whose source text has whitespace around it, next to
\* an earlier Turn.
C16_Witness ==
    /\ Ended /\ Appended = 1 /\ Len(conv_history) >= 2
    /\ LastTurn.original = <<" ", "a", " ">>

-----------------------------------------------------------------------------
(* C20 *)

-----------------------------------------------------------------------------
(* C14, C15: the exported document *)

\* The messages a document shows, read back from its lines: the speaker and
\* the two languages from each header, the two texts from the lines below it.
TurnsOf(lines) ==
    [i \in 1..((Len(lines) - 1) \div 3) |->
        [speaker    |-> lines[3 * i - 1][1],
         src_lang   |-> lines[3 * i - 1][3],
         tgt_lang   |-> lines[3 * i - 1][9],
         original   |-> Tail(lines[3 * i]),
         translated |-> Tail(lines[3 * i + 1])]]

\* C14: when the export has run on a non-empty log it has not failed, and
\* the document shows every Turn of the log once, in insertion order, with
\* its speaker, source language, target language, original and translated
\* text.
C14_ExportShowsEveryTurn ==
    pc = "exported" /\ conv_history # <<>> =>
        /\ pdf.kind = "pdf"
        /\ TurnsOf(pdf.lines) = conv_history

\* C15: an export step leaves the conversation log as it was and yields a
\* document for a non-empty log; when the log still is what the previous
\* document shows, the new document shows the same Turns in the same order.
C15_ExportIdempotentReadOnly ==
    [][pc = "triggers" /\ pc' = "exported" =>
          /\ conv_history' = conv_history
          /\ conv_history # <<>> => pdf'.kind = "pdf"
          /\ pdf.kind = "pdf" /\ TurnsOf(pdf.lines) = conv_history
                => TurnsOf(pdf'.lines) = TurnsOf(pdf.lines)]_vars

\* The part of C15 the code keeps: the export never changes the log.
C15_ExportReadOnly ==
    [][pc = "triggers" /\ pc' = "exported" => conv_history' = conv_history]_vars


-----------------------------------------------------------------------------
(* C19: what a Turn records about time *)

\* C19 as stated: every Turn of the log has a created_at field, and the
\* values of that field do not decrease along the log.
C19_TimestampsNonDecreasing ==
    /\ \A i \in 1..Len(conv_history) : "created_at" \in DOMAIN conv_history[i]
    /\ \A i \in 1..Len(conv_history) : \A j \in i..Len(conv_history) :
           conv_history[i].created_at <= conv_history[j].created_at

\* C19 amended: a Turn has the fields speaker, src_lang, tgt_lang, original
\* and translated and no other, so no created_at; the order of creation is
\* kept by position alone: the Turn an invocation adds stands last, behind
\* all the Turns that were in the log before.
C19_FieldsAndInsertionOrder ==
    /\ \A i \in 1..Len(conv_history) :
           DOMAIN conv_history[i] =
              {"speaker", "src_lang", "tgt_lang", "original", "translated"}
    /\ InTurn /\ Appended = 1 =>
           /\ SubSeq(conv_history, 1, Len(conv_history) - 1) = hist_before
           /\ conv_history[Len(conv_history)].speaker = role
           /\ conv_history[Len(conv_history)].original = original_text

\* A second Turn has been added behind a first one with another speaker.
C19_Witness ==
    /\ InTurn /\ Appended = 1
    /\ Len(hist_before) = 1
    /\ hist_before[1].speaker # role


-----------------------------------------------------------------------------
(* C13, C18: contracts of the library functions *)

\* C13: a call of lang_code_for_translation returns a code for whatever name
\* it is given: the catalog's code for a name of the catalog, "en" for any
\* other name.
C13_LangCodeTotal ==
    pc = "called" /\ calls = <<"lang_code">> =>
        /\ exc = "none"
        /\ lang_code # "-"
        /\ src_lang \in DOMAIN SUPPORTED_LANGUAGES
              => lang_code = SUPPORTED_LANGUAGES[src_lang]
        /\ src_lang \notin DOMAIN SUPPORTED_LANGUAGES => lang_code = "en"
        /\ src_lang = "Hindi" => lang_code = "hi"
        /\ src_lang = "Chinese (Simplified)" => lang_code = "zh-cn"
        /\ src_lang \in {"", "english", "Klingon"} => lang_code = "en"

\* The function was called with a name the catalog lacks.
C13_Witness ==
    /\ pc = "called" /\ calls = <<"lang_code">>
    /\ src_lang = "Klingon"
    /\ lang_code = "en"

\* C18: a call of text_to_speech_file never lets an exception out; for a
\* text that is empty or all whitespace it returns no path, asks nothing of
\* the engine and creates no file; a path it returns names a file that
\* exists and holds data.
C18_SynthesisWrapperContract ==
    pc = "called" /\ calls = <<"tts">> =>
        /\ exc = "none"
        /\ IsBlank(tts_text) =>
              ~tts_path /\ remote = <<>> /\ tts_file = "none"
        /\ tts_path => tts_file = "data"

\* The engine left an empty file behind for a text that has words.
C18_Witness ==
    /\ pc = "called" /\ calls = <<"tts">>
    /\ ~IsBlank(tts_text)
    /\ tts_file = "empty"
    /\ raised = {}
    /\ ~tts_path


-----------------------------------------------------------------------------
(* C17: recognition support *)

-----------------------------------------------------------------------------
(* C21, C22: the recording a microphone keeps *)

\* The microphone key of a role of the Chat page.
KeyOf(r) == IF r = "Doctor" THEN "conv_doc_mic" ELSE "conv_pat_mic"

\* The step is one in which the microphones of a page are rendered.
MicsRendered == pc \in {"idle", "sp_idle"} /\ pc' \notin {"idle", "sp_idle"}

\* C21: in a run that renders the microphones, what medical_mic returns
\* under a key is the recording the recorder delivered under that key in
\* this run, or else the one the key held before; it is None exactly when
\* the key held nothing and nothing was delivered.  Nothing else changes
\* what a key holds: not a delivery under another key, nor any later step.
C21_MicRetainsLastRecording ==
    [][/\ MicsRendered =>
            \A k \in AllMicKeys :
               /\ audio_bytes'[k] # "None" => last_audio'[k] = audio_bytes'[k]
               /\ audio_bytes'[k] = "None" => last_audio'[k] = last_audio[k]
               /\ last_audio'[k] = "None"
                     <=> (last_audio[k] = "None" /\ audio_bytes'[k] = "None")
       /\ ~MicsRendered => last_audio' = last_audio]_vars

\* The Doctor microphone returns its earlier recording in a run in which
\* only the Patient microphone delivered one.
C21_Witness ==
    /\ pc = "triggers"
    /\ audio_bytes["conv_doc_mic"] = "None"
    /\ last_audio["conv_doc_mic"] = "wav"
    /\ audio_bytes["conv_pat_mic"] = "empty"
    /\ last_audio["conv_pat_mic"] = "empty"

\* C22: all through an invocation, and when it has ended, the microphone of
\* its role holds the recording the invocation was given; an invocation
\* triggered in a run without a new recording for its role works on the
\* retained one: it reaches transcription once the temporary file is written
\* and, when transcription gives a usable text, appends one more Turn.
C22_RecordingNotConsumed ==
    /\ InTurn => audio_data = last_audio[KeyOf(role)]
    /\ Ended /\ audio_data # "None" /\ audio_bytes[KeyOf(role)] = "None" =>
          /\ exc \notin {"tempfile", "write"} => "stt" \in Range(calls)
          /\ Recognized =>
                /\ Appended = 1
                /\ LastTurn.speaker = role

\* A role that already has a Turn in the log was triggered again without a
\* new recording and a further Turn of that role was appended.
C22_Witness ==
    /\ Ended /\ Appended = 1
    /\ audio_bytes[KeyOf(role)] = "None"
    /\ Len(hist_before) = 1
    /\ hist_before[1].speaker = role


-----------------------------------------------------------------------------
(* C23, C24: translate_text called directly *)

\* A direct call of translate_text has returned.
CalledTranslate == pc = "called" /\ calls = <<"translate">>

C24_WorksOnStrippedInput ==
    CalledTranslate =>
        /\ exc = "none"
        /\ IsBlank(original_text) => translated_text = <<>> /\ remote = <<>>
        /\ remote = <<>> \/ "translate" \in raised
              => translated_text = Strip(original_text)

\* The engine raised on a text with surrounding whitespace and the value
\* returned differs from the text given.
C24_Witness ==
    /\ CalledTranslate
    /\ "translate" \in raised
    /\ ~IsBlank(original_text)
    /\ translated_text # original_text


-----------------------------------------------------------------------------
(* C26: the one-way speech flow *)

\* A run of show_speech_tab has got past the temporary WAV file.
SpeechInTry == pc \in {"sp_stt", "sp_translate", "sp_tts", "sp_play",
                       "sp_finally"}

\* The part of C26 about exceptions and about the choice of the audio: no
\* exception of transcription, translation, synthesis or playback leaves
\* the tab, a failed playback is reported as an error, and an uploaded file
\* is processed in preference to a recording.
C26_CaughtAndUploadFirst ==
    /\ SpeechInTry \/ pc = "sp_done" => exc \in {"none", "tempfile", "write"}
    /\ SpeechInTry => exc = "none"
    /\ pc = "sp_finally" /\ tts_path /\ ~played
          => "Error while translating speech" \in shown
    /\ (SpeechInTry \/ pc = "sp_done") /\ audio_data # "None" /\ uploaded # "None"
          => audio_data = uploaded

\* C26: in the one-way speech flow every exception after the creation of
\* the temporary WAV file is caught and reported, an uploaded file is
\* processed in preference to a recording, and when the run of the tab is
\* over the temporary WAV file is no longer on disk.
C26_SpeechFlowContained ==
    /\ C26_CaughtAndUploadFirst
    /\ pc = "sp_done" /\ wav_file # "none" => ~OnDisk(wav_file)


-----------------------------------------------------------------------------
(* C25, C27: the one-way flows *)

\* A run of the Translator page is under way or has just ended.
OnTranslatorRun ==
    pc \in {"sp_stt", "sp_translate", "sp_tts", "sp_play", "sp_finally",
            "tx_translate", "tx_tts", "tx_play", "im_translate", "im_tts",
            "im_play", "sp_done"}

\* C25: no step of a run of the Translator page, in the speech, the text
\* or the image tab and whatever its outcome, changes the conversation log.
C25_OneWayFlowsKeepLog ==
    [][pc = "sp_idle" \/ OnTranslatorRun =>
          /\ conv_history' = conv_history
          /\ has_history' = has_history]_vars

\* A run of the text tab has translated and spoken a text in a session
\* whose conversation log holds a Turn.
C25_Witness ==
    /\ pc = "sp_done"
    /\ conv_history # <<>>
    /\ calls = <<"translate", "tts">>
    /\ wav_file = "none"
    /\ played

\* C27: an extraction never ends with an exception; afterwards the text
\* area holds what extract_text_from_image returned, trimmed, which for a
\* successful recognition is the joined lines trimmed; an empty result is
\* reported by the warning and only an empty result is; and the image tab
\* translates no text that is empty or all whitespace.
C27_RecognitionNeverFatal ==
    /\ pc = "sp_done" /\ calls = <<"ocr">> =>
          /\ exc = "none"
          /\ img_text_input = Strip(extracted)
          /\ "ocr" \notin raised => img_text_input = Strip(original_text)
          /\ img_text_input = <<>>
                <=> "No text could be confidently extracted" \in shown
          /\ "ocr" \in raised
                => "There was an error while reading the text" \in shown
    /\ pc \in {"im_translate", "im_tts", "im_play"} => ~IsBlank(original_text)
    /\ "Please enter the text from the image" \in shown => calls = <<>>

\* Recognition failed; the failure was reported and nothing was raised.
C27_Witness ==
    /\ pc = "sp_done" /\ calls = <<"ocr">>
    /\ "ocr" \in raised
    /\ exc = "none"
    /\ img_text_input = OcrErrorText

====
